---------------------------- MODULE Spec2Model ----------------------------
(***************************************************************************)
(* Model of server.py: the neural SOC predictor (run_neural_net_batch),     *)
(* the coulomb-counting integrator (physics_integrate_soc) and the two      *)
(* request handlers (/predict, /simulate) with the fusion loop.             *)
(*                                                                         *)
(* Reals are fixed-point integers: the real number 1 is Fix units, so an    *)
(* SOC of 100 percent is Hundred = 100 * Fix.  Fix is chosen so that the    *)
(* coulomb count of whole ampere-seconds is exact.  Request values          *)
(* (amperes, volts, degrees, seconds) are whole numbers.                    *)
(***************************************************************************)
EXTENDS Integers, Sequences, FiniteSets

VARIABLES
    bundle,     \* module-level IW, LW, b1, b2, x_min, x_max, y_min, y_max
    loaded,     \* the parameter values as read from model_params.json
    request,    \* the endpoint and the list lengths of the request the last
                \* handler served
    response,   \* the response it returned
    nnCall,     \* the last handler's call of run_neural_net_batch
    physCall,   \* the last call of physics_integrate_soc
    prevNN      \* the preceding call of run_neural_net_batch, when its
                \* inputs were the inputs of nnCall

vars == <<bundle, loaded, request, response, nnCall, physCall, prevNN>>

-----------------------------------------------------------------------------
(* Program constants.                                                      *)

BATTERY_CAPACITY_AH == 27
SERIES_CELLS == 96
\* ML_WEIGHT = 0.35, in hundredths
ML_WEIGHT == 35
\* EPS = 1e-9, as its reciprocal: x / EPS is x * EPS_INV
EPS_INV == 1000000000
\* the output-scale threshold of "if y_max < 2.0"
SCALE_THRESHOLD == 2

\* One, in fixed-point units: delta_percent of 1 A over 1 s is exactly 1 unit.
Fix == BATTERY_CAPACITY_AH * 36
Hundred == 100 * Fix

-----------------------------------------------------------------------------
(* Bounds and input sets.                                                  *)

\* longest current series of a request
MaxLen == 3

Currents == {-100, 100}
Volts == {288, 336}
Temps == {25}
\* spacing of the timestamps a request carries
TimeSteps == {600}
\* the same, of a direct call of the integrator
DirectTimeSteps == {1, 600}
\* start_soc values of a direct call of the integrator
StartSocs == {0, 50 * Fix, Hundred}

-----------------------------------------------------------------------------
(* Python helpers.                                                         *)

Min(a, b) == IF a <= b THEN a ELSE b
Max(a, b) == IF a >= b THEN a ELSE b

\* list(range(n)), the synthetic time basis
Range(n) == [k \in 1..n |-> k - 1]

\* a constant list: n samples of value v
Fill(n, v) == [k \in 1..n |-> v]

\* Optional[...]: None, or a value
None == [present |-> FALSE, value |-> 0]
Some(v) == [present |-> TRUE, value |-> v]
NoList == [given |-> FALSE, list |-> <<>>]
SomeList(l) == [given |-> TRUE, list |-> l]


-----------------------------------------------------------------------------
(* The parameter bundle (model_params.json).                               *)

\* a real number n/d in fixed-point units
Real(n, d) == (n * Fix) \div d

\* IW is H x 3, LW is 1 x H, b1 has H entries, b2 one; x_min and x_max have
\* one entry per channel (current, temperature, cell voltage).  intTyped
\* says that the JSON wrote x_min and x_max as integers, so that numpy holds
\* them, and their difference, in integer arrays.
BaseBundle ==
    [IW |-> << <<Real(1, 2), 0, Real(2, 1)>>, <<0, Real(1, 1), 0>> >>,
     LW |-> <<Real(3, 2), Real(1, 5)>>,
     b1 |-> <<0, 0>>,
     b2 |-> 0,
     x_min |-> <<Real(-50, 1), Real(0, 1), Real(3, 1)>>,
     x_max |-> <<Real(50, 1), Real(50, 1), Real(4, 1)>>,
     y_min |-> 0,
     y_max |-> Real(1, 1),
     intTyped |-> FALSE]

\* trained on percent: y_max >= 2.0
PercentBundle ==
    [BaseBundle EXCEPT !.y_max = Real(100, 1), !.b2 = Real(4, 5)]

\* x_min = x_max on the temperature channel
FlatBundle ==
    [BaseBundle EXCEPT !.x_min[2] = Real(25, 1), !.x_max[2] = Real(25, 1)]

\* the same, written with integer bounds
FlatIntBundle == [FlatBundle EXCEPT !.intTyped = TRUE]

Bundles == {BaseBundle, PercentBundle, FlatBundle, FlatIntBundle}

-----------------------------------------------------------------------------
(* run_neural_net_batch                                                    *)

\* a product of two fixed-point numbers
Mul(a, b) == (a * b) \div Fix

RECURSIVE Dot(_, _, _)
\* np.dot of a row and a column, over their first k entries
Dot(u, v, k) == IF k = 0 THEN 0 ELSE Dot(u, v, k - 1) + Mul(u[k], v[k])

\* tanh at 0, 0.5, 1, ..., 4.5, in thousandths
TanhTable == <<0, 462, 762, 905, 964, 987, 995, 998, 999, 1000>>

TanhKnot(k) == (TanhTable[k + 1] * Fix) \div 1000

\* np.tanh, piecewise linear between the knots and saturated beyond them
TanhPos(x) ==
    LET k == (2 * x) \div Fix
    IN  IF k >= Len(TanhTable) - 1
        THEN TanhKnot(Len(TanhTable) - 1)
        ELSE TanhKnot(k)
             + ((TanhKnot(k + 1) - TanhKnot(k)) * (2 * x - k * Fix)) \div Fix

Tanh(x) == IF x >= 0 THEN TanhPos(x) ELSE 0 - TanhPos(0 - x)

\* X = np.vstack([currents, temps, voltages / SERIES_CELLS]), column k
Column(currents, temps, voltages, k) ==
    <<currents[k] * Fix, temps[k] * Fix, (voltages[k] * Fix) \div SERIES_CELLS>>

\* X_clamped = np.maximum(x_min, np.minimum(x_max, X))
Clamped(b, x) == [ch \in 1..3 |-> Max(b.x_min[ch], Min(b.x_max[ch], x[ch]))]

\* denom = x_max - x_min; denom[denom == 0] = EPS.  An integer array takes
\* int(EPS) = 0 and stays 0; a float array takes EPS.
DenomZero(b, ch) == b.x_max[ch] - b.x_min[ch] = 0

\* 0.0 / 0 of a channel whose integer denominator stayed 0
NormIsNaN(b, ch) == DenomZero(b, ch) /\ b.intTyped

\* X_norm = 2.0 * (X_clamped - x_min) / denom - 1.0
Normalize(b, xc) ==
    [ch \in 1..3 |->
        IF DenomZero(b, ch)
        THEN 2 * (xc[ch] - b.x_min[ch]) * EPS_INV - Fix
        ELSE (2 * Fix * (xc[ch] - b.x_min[ch])) \div (b.x_max[ch] - b.x_min[ch])
             - Fix]

\* Z = np.tanh(np.dot(IW, X_norm) + b1)
Hidden(b, xn) ==
    [h \in 1..Len(b.IW) |-> Tanh(Dot(b.IW[h], xn, 3) + b.b1[h])]

\* Y_norm = np.dot(LW, Z) + b2
YNorm(b, z) == Dot(b.LW, z, Len(b.LW)) + b.b2

\* soc_fraction = (Y_norm + 1) * (y_max - y_min) / 2 + y_min
Denormalize(b, y) == Mul(y + Fix, b.y_max - b.y_min) \div 2 + b.y_min

\* if y_max < 2.0: soc_fraction * 100 else soc_fraction
ScalePercent(b, f) == IF b.y_max < SCALE_THRESHOLD * Fix THEN f * 100 ELSE f

ClampNoCeiling(isNaN, r) == IF isNaN THEN Hundred ELSE Max(0, r)

\* max(0.0, min(100.0, float(r))): min(100.0, nan) is 100.0, since
\* nan < 100.0 is false
ClampPercent(isNaN, r) == IF isNaN THEN Hundred ELSE Max(0, Min(Hundred, r))

\* the SOC of sample k before the final clamp
RawPercent(b, currents, temps, voltages, k) ==
    ScalePercent(b, Denormalize(b, YNorm(b, Hidden(b,
        Normalize(b, Clamped(b, Column(currents, temps, voltages, k)))))))

\* the list run_neural_net_batch returns: one SOC per current sample
run_neural_net_batch(b, currents, temps, voltages) ==
    [k \in 1..Len(currents) |->
        ClampPercent(\E ch \in 1..3 : NormIsNaN(b, ch),
                     RawPercent(b, currents, temps, voltages, k))]

\* denom aliasing x_max (x_max -= x_min in place), then the EPS substitution
BundleAliasedDenom(b) ==
    [b EXCEPT !.x_max =
        [ch \in 1..3 |->
            IF DenomZero(b, ch) /\ ~b.intTyped
            THEN Fix \div EPS_INV
            ELSE b.x_max[ch] - b.x_min[ch]]]

\* the bundle after a call: denom is a fresh array, x_max - x_min, and the
\* assignment into it leaves x_min and x_max alone
BundleAfterNN(b) == b

-----------------------------------------------------------------------------
(* physics_integrate_soc                                                   *)

\* if times is None or len(times) != n: times = list(range(n))
TimeBasis(n, times) ==
    IF ~times.given \/ Len(times.list) # n THEN Range(n) ELSE times.list

\* delta_percent = (currents[i-1] * dt) / (BATTERY_CAPACITY_AH * 3600.0) * 100.0
\* (one ampere-second is (100 * Fix) / (BATTERY_CAPACITY_AH * 3600) = 1 unit)
DeltaPercent(current, dt) ==
    current * dt * ((100 * Fix) \div (BATTERY_CAPACITY_AH * 3600))

\* next_soc = phys[-1] + delta_percent
NextSoc(soc, current, dt) == soc + DeltaPercent(current, dt)

\* if next_soc >= 100.0: next_soc = 100.0; then max(0.0, min(100.0, next_soc))
Ceiling(next) ==
    Max(0, Min(Hundred, IF next >= Hundred THEN Hundred ELSE next))

\* what a call that raised leaves its caller: no return value
Raised == [raised |-> TRUE, phys |-> <<>>, discharge_time |-> None, steps |-> 0]

RECURSIVE IntegrateFrom(_, _, _, _)
\* the loop "for i in range(1, n)" from index i on, and the lines after it;
\* phys is the list built so far.  Python's currents[i-1], times[i-1] and
\* times[i] are currents[i], times[i] and times[i+1] here.  steps counts the
\* iterations that were run.
IntegrateFrom(currents, times, phys, i) ==
    IF i >= Len(currents)
    THEN \* discharge_time = float(times[-1]): IndexError on an empty list
         IF Len(times) = 0
         THEN Raised
         ELSE [raised |-> FALSE, phys |-> phys,
               discharge_time |-> Some(times[Len(times)]), steps |-> i - 1]
    ELSE LET next == NextSoc(phys[Len(phys)], currents[i],
                             times[i + 1] - times[i])
         IN  IF next <= 0
             THEN [raised |-> FALSE, phys |-> Append(phys, 0),
                   discharge_time |-> Some(times[i + 1]), steps |-> i]
             ELSE IntegrateFrom(currents, times,
                                Append(phys, Ceiling(next)), i + 1)

physics_integrate_soc(currents, times, start_soc) ==
    IntegrateFrom(currents, TimeBasis(Len(currents), times), <<start_soc>>, 1)

-----------------------------------------------------------------------------
(* The handlers.                                                           *)

NoNN == [ran |-> FALSE, currents |-> <<>>, temps |-> <<>>, voltages |-> <<>>,
         raised |-> FALSE, result |-> <<>>]

NoPhys == [ran |-> FALSE, currents |-> <<>>, times |-> NoList, start_soc |-> 0,
           raised |-> FALSE, phys |-> <<>>, discharge_time |-> None,
           steps |-> 0]

\* np.vstack raises ValueError unless the three rows have one length
Stackable(currents, temps, voltages) ==
    Len(temps) = Len(currents) /\ Len(voltages) = Len(currents)

\* the record of a call of run_neural_net_batch
NNRecord(b, currents, temps, voltages) ==
    [ran |-> TRUE, currents |-> currents, temps |-> temps,
     voltages |-> voltages,
     raised |-> ~Stackable(currents, temps, voltages),
     result |-> IF Stackable(currents, temps, voltages)
                THEN run_neural_net_batch(b, currents, temps, voltages)
                ELSE <<>>]

\* the record of a call of physics_integrate_soc
PhysRecord(currents, times, start_soc) ==
    LET r == physics_integrate_soc(currents, times, start_soc)
    IN  [ran |-> TRUE, currents |-> currents, times |-> times,
         start_soc |-> start_soc, raised |-> r.raised, phys |-> r.phys,
         discharge_time |-> r.discharge_time, steps |-> r.steps]

\* {"soc": [], "discharge_time": None, "total_points": 0}
EmptyShape ==
    [endpoint |-> "simulate", escaped |-> FALSE, soc |-> <<>>,
     discharge_time |-> None, total_points |-> 0]

Propagated == [EmptyShape EXCEPT !.escaped = TRUE]

\* except Exception as e: the response of /simulate to an exception
SimulateOnError == EmptyShape

LengthsMatchTempOnly(data, n) == Len(data.temperature) = n

\* len(data.temperature) == n and len(data.voltage) == n
LengthsMatch(data, n) == Len(data.temperature) = n /\ Len(data.voltage) = n

\* times = data.time if (data.time and len(data.time) == n) else None
TimesArg(data, n) ==
    IF data.time.given /\ Len(data.time.list) > 0 /\ Len(data.time.list) = n
    THEN data.time
    ELSE NoList

\* START_SOC = nn_socs[0] if (nn_socs and 0 <= nn_socs[0] <= 100) else 100.0
StartSoc(nn_socs) ==
    IF Len(nn_socs) > 0 /\ 0 <= nn_socs[1] /\ nn_socs[1] <= Hundred
    THEN nn_socs[1]
    ELSE Hundred

FusePointNoFloor(ph, ml) ==
    Max(0, Min(Hundred, (ML_WEIGHT * ml + (100 - ML_WEIGHT) * ph) \div 100))

\* one pass of the fusion loop: 0.0 where physics says the battery is dead,
\* else the clamped blend
FusePoint(ph, ml) ==
    IF ph <= 0
    THEN 0
    ELSE Max(0, Min(Hundred, (ML_WEIGHT * ml + (100 - ML_WEIGHT) * ph) \div 100))

\* final_socs: ml = nn_socs[idx] if idx < len(nn_socs) else ph
Fuse(phys_socs, nn_socs) ==
    [idx \in 1..Len(phys_socs) |->
        FusePoint(phys_socs[idx],
                  IF idx <= Len(nn_socs) THEN nn_socs[idx] ELSE phys_socs[idx])]

\* predict_cycle: the response, with the calls the handler made
predict_cycle(b, data) ==
    LET n == Len(data.current)
    IN  IF ~LengthsMatch(data, n)
        THEN [response |-> EmptyShape, nn |-> NoNN, phys |-> NoPhys]
        ELSE LET nn == NNRecord(b, data.current, data.temperature, data.voltage)
                 ph == IF nn.raised
                       THEN NoPhys
                       ELSE PhysRecord(data.current, TimesArg(data, n),
                                       StartSoc(nn.result))
                 final_socs == Fuse(ph.phys, nn.result)
             IN  [response |->
                      IF nn.raised \/ ph.raised
                      THEN SimulateOnError
                      ELSE [endpoint |-> "simulate", escaped |-> FALSE,
                            soc |-> final_socs,
                            discharge_time |-> ph.discharge_time,
                            total_points |-> Len(final_socs)],
                  nn |-> nn, phys |-> ph]

\* predict_single: {"soc": soc}; soc is carried as a list of one point
predict_single(b, data) ==
    LET nn == NNRecord(b, data.current, data.temperature, data.voltage)
    IN  [response |->
             [endpoint |-> "predict", escaped |-> FALSE,
              soc |-> <<Max(0, Min(Hundred, nn.result[1]))>>,
              discharge_time |-> None, total_points |-> 1],
         nn |-> nn, phys |-> NoPhys]

-----------------------------------------------------------------------------
(* The state machine.                                                      *)

NoRequest ==
    [endpoint |-> "none", current |-> 0, temperature |-> 0, voltage |-> 0,
     time |-> None]

\* the endpoint a request went to and the lengths of its lists
Shape(data) ==
    [endpoint |-> data.endpoint, current |-> Len(data.current),
     temperature |-> Len(data.temperature), voltage |-> Len(data.voltage),
     time |-> IF data.time.given THEN Some(Len(data.time.list)) ELSE None]

NoResponse ==
    [endpoint |-> "none", escaped |-> FALSE, soc |-> <<>>,
     discharge_time |-> None, total_points |-> 0]

NoPrev == [same |-> FALSE, result |-> <<>>]

\* current series of at most MaxLen samples
CurrentLists == UNION {[1..n -> Currents] : n \in 0..MaxLen}

\* timestamps i * step
Stepped(n, step) == [k \in 1..n |-> (k - 1) * step]

\* the time field of a request over n samples: absent, n evenly spaced
\* timestamps, or a list of another length
TimeChoices(n, steps) ==
    {NoList} \cup {SomeList(Stepped(n, s)) : s \in steps}
             \cup {SomeList(Range(n + 1))}

\* the module-level load of model_params.json
Init ==
    /\ bundle \in Bundles
    /\ loaded = bundle
    /\ request = NoRequest
    /\ response = NoResponse
    /\ nnCall = NoNN
    /\ physCall = NoPhys
    /\ prevNN = NoPrev

\* the handler's call of the predictor, against the one before it
Repeat(nn) ==
    IF nn.ran /\ nnCall.ran /\ nn.currents = nnCall.currents
       /\ nn.temps = nnCall.temps /\ nn.voltages = nnCall.voltages
    THEN [same |-> TRUE, result |-> nnCall.result]
    ELSE NoPrev

Serve(data, out) ==
    /\ request' = Shape(data)
    /\ response' = out.response
    /\ nnCall' = out.nn
    /\ physCall' = out.phys
    /\ bundle' = IF out.nn.ran THEN BundleAfterNN(bundle) ELSE bundle
    /\ prevNN' = Repeat(out.nn)
    /\ UNCHANGED loaded

\* POST /simulate
Simulate ==
    \E c \in CurrentLists, t \in Temps, v \in Volts,
       extraT \in {0, 1}, extraV \in {-1, 0} :
        \E tm \in TimeChoices(Len(c), TimeSteps) :
            LET data == [endpoint |-> "simulate", current |-> c,
                         temperature |-> Fill(Len(c) + extraT, t),
                         voltage |-> Fill(Max(0, Len(c) + extraV), v),
                         time |-> tm]
            IN  Serve(data, predict_cycle(bundle, data))

\* POST /predict
Predict ==
    \E c \in Currents, t \in Temps, v \in Volts :
        LET data == [endpoint |-> "predict", current |-> <<c>>,
                     temperature |-> <<t>>, voltage |-> <<v>>,
                     time |-> NoList]
        IN  Serve(data, predict_single(bundle, data))

Next == Simulate \/ Predict

Spec == Init /\ [][Next]_vars

\* a direct call of physics_integrate_soc
PhysicsCall ==
    \E c \in CurrentLists, s \in StartSocs :
        \E tm \in TimeChoices(Len(c), DirectTimeSteps) :
            /\ physCall' = PhysRecord(c, tm, s)
            /\ request' = [NoRequest EXCEPT !.endpoint = "direct"]
            /\ UNCHANGED <<bundle, loaded, response, nnCall, prevNN>>

PhysNext == PhysicsCall

PhysSpec == Init /\ [][PhysNext]_vars

-----------------------------------------------------------------------------
(* Properties.                                                             *)

\* the time basis the last call of the integrator used
Basis == TimeBasis(Len(physCall.currents), physCall.times)

\* the last call of the integrator returned, from N >= 1 samples and a
\* start_soc in [0, 100]
Returned ==
    /\ physCall.ran
    /\ ~physCall.raised
    /\ Len(physCall.currents) >= 1
    /\ 0 <= physCall.start_soc
    /\ physCall.start_soc <= Hundred

\* step k of the last call (the one that appended element k + 1) computed
\* next_soc <= 0
Depleted(k) ==
    NextSoc(physCall.phys[k], physCall.currents[k], Basis[k + 1] - Basis[k]) <= 0

\* C1: in the trajectory physics_integrate_soc returns from N >= 1 samples
\* and a start_soc in [0, 100], an element equal to 0 is the last element.
C1_ZeroIsLast ==
    Returned =>
        \A k \in 1..Len(physCall.phys) :
            physCall.phys[k] = 0 => k = Len(physCall.phys)

\* C2: for every N, 0 included, physics_integrate_soc returns a trajectory;
\* it has N elements, unless a step i computed next_soc <= 0, and then it
\* has i + 1 elements and i is the last step that was run.
C2_TrajectoryLength ==
    physCall.ran =>
        /\ ~physCall.raised
        /\ IF \E k \in 1..physCall.steps : Depleted(k)
           THEN \E i \in 1..physCall.steps :
                    /\ Depleted(i)
                    /\ \A k \in 1..(i - 1) : ~Depleted(k)
                    /\ Len(physCall.phys) = i + 1
                    /\ physCall.steps = i
           ELSE Len(physCall.phys) = Len(physCall.currents)

\* C3: the discharge time is the timestamp at the smallest index whose
\* trajectory element is 0, and the last timestamp when no element is 0.
C3_DischargeTime ==
    Returned =>
        IF \E k \in 1..Len(physCall.phys) : physCall.phys[k] = 0
        THEN \E i \in 1..Len(physCall.phys) :
                 /\ physCall.phys[i] = 0
                 /\ \A k \in 1..(i - 1) : physCall.phys[k] # 0
                 /\ physCall.discharge_time = Some(Basis[i])
        ELSE physCall.discharge_time = Some(Basis[Len(Basis)])

\* C4: positive current is discharge: a step with a positive current over a
\* positive time step appends an SOC no greater than the one before it.
C4_PositiveCurrentDischarges ==
    Returned =>
        \A k \in 1..(Len(physCall.phys) - 1) :
            (physCall.currents[k] > 0 /\ Basis[k + 1] - Basis[k] > 0)
                => physCall.phys[k + 1] <= physCall.phys[k]

\* /simulate answered with a fused trajectory
Fused ==
    /\ request.endpoint = "simulate"
    /\ physCall.ran
    /\ ~physCall.raised

\* C5: the fused list is as long as the physics trajectory, each fused
\* value is in [0, 100], and it is 0 wherever the physics value is <= 0,
\* whatever the neural value there.
C5_Fusion ==
    Fused =>
        /\ Len(response.soc) = Len(physCall.phys)
        /\ \A k \in 1..Len(response.soc) :
               /\ 0 <= response.soc[k]
               /\ response.soc[k] <= Hundred
               /\ physCall.phys[k] <= 0 => response.soc[k] = 0

\* a fused trajectory with an index where physics says 0 and the predictor
\* says more than 0
C5_Witness ==
    /\ Fused
    /\ \E k \in 1..Len(physCall.phys) :
           physCall.phys[k] = 0 /\ nnCall.result[k] > 0

\* the request had a temperature or voltage list of another length than the
\* current list
Mismatched ==
    /\ request.endpoint = "simulate"
    /\ \/ request.temperature # request.current
       \/ request.voltage # request.current

\* C6: a /simulate request whose temperature or voltage list differs in
\* length from the current list gets the empty shape, and neither the
\* predictor nor the integrator runs for it.
C6_ShapeMismatch ==
    Mismatched =>
        /\ response = EmptyShape
        /\ ~nnCall.ran
        /\ ~physCall.ran

\* a request whose voltage list alone is short
C6_Witness ==
    /\ Mismatched
    /\ request.temperature = request.current
    /\ request.voltage < request.current
    /\ response = EmptyShape

\* C7: every /simulate request is answered, without an exception escaping,
\* by the empty shape or by a complete result: total_points is the length
\* of soc, soc is no longer than the current list, discharge_time is there.
C7_ResponseShape ==
    request.endpoint = "simulate" =>
        /\ ~response.escaped
        /\ \/ response = EmptyShape
           \/ /\ response.total_points = Len(response.soc)
              /\ Len(response.soc) >= 1
              /\ Len(response.soc) <= request.current
              /\ response.discharge_time.present
              /\ physCall.ran
              /\ Len(response.soc) = Len(physCall.phys)

\* a request of matching (empty) lists whose computation raised
C7_Witness ==
    /\ request.endpoint = "simulate"
    /\ physCall.ran
    /\ physCall.raised
    /\ response = EmptyShape

\* the last direct call was given no timestamps, or a list of another
\* length than the current list
FellBack ==
    /\ physCall.ran
    /\ \/ ~physCall.times.given
       \/ Len(physCall.times.list) # Len(physCall.currents)

\* C8: physics_integrate_soc without timestamps, or with a timestamp list of
\* another length, never raises, and returns what the call with the
\* timestamps [0, 1, ..., N-1] returns.
C8_TimeFallback ==
    FellBack =>
        LET explicit == physics_integrate_soc(
                            physCall.currents,
                            SomeList(Range(Len(physCall.currents))),
                            physCall.start_soc)
        IN  /\ ~physCall.raised
            /\ ~explicit.raised
            /\ physCall.phys = explicit.phys
            /\ physCall.discharge_time = explicit.discharge_time

\* C9: run_neural_net_batch returns one value per sample, each in [0, 100].
C9_ClampInvariant ==
    (nnCall.ran /\ ~nnCall.raised) =>
        /\ Len(nnCall.result) = Len(nnCall.currents)
        /\ \A k \in 1..Len(nnCall.result) :
               0 <= nnCall.result[k] /\ nnCall.result[k] <= Hundred

\* a sample whose current is beyond x_max and whose output before the clamp
\* is above 100
C9_Witness ==
    /\ nnCall.ran
    /\ \E k \in 1..Len(nnCall.currents) :
           /\ nnCall.currents[k] * Fix > bundle.x_max[1]
           /\ RawPercent(bundle, nnCall.currents, nnCall.temps,
                         nnCall.voltages, k) > Hundred
           /\ nnCall.result[k] = Hundred

\* C10: the parameters keep their loaded values, and a call of
\* run_neural_net_batch with the inputs of the call before it returns what
\* that call returned.
C10_BundleNeverMutated ==
    /\ bundle = loaded
    /\ prevNN.same => prevNN.result = nnCall.result

\* two calls in a row with the same inputs, under a bundle with x_min = x_max
\* on a channel
C10_Witness ==
    /\ prevNN.same
    /\ Len(nnCall.result) > 0
    /\ \E ch \in 1..3 : DenomZero(loaded, ch)
    /\ ~loaded.intTyped

=============================================================================
